---- MODULE Spec2Model ----
(***************************************************************************)
(* Model of the Mastodon account-age checker: the two server entry points  *)
(* (the single-instance server of mastodon-age-checker.js and the          *)
(* multi-instance server that fans a bare username out over the configured *)
(* instances), their handle validation, outbound lookups, aggregation and  *)
(* HTTP responses, and the account-age arithmetic.                         *)
(*                                                                         *)
(* Strings of the program are sequences of one-character strings, so that  *)
(* the regular expressions, split('@'), join(', ') and the number          *)
(* formatting of template literals are computed, not assumed.              *)
(***************************************************************************)
EXTENDS Integers, Sequences, FiniteSets

\* ------------------------------------------------------------------ bounds

\* Requests in flight at the same time.
MaxRequests == 2
\* The clock of the age calculation runs over days 0 .. MaxDay.
MaxDay == 800

\* ------------------------------------------------------------ text helpers

Lower == {"a", "b", "c", "d", "e", "f", "g", "h", "i", "j", "k", "l", "m",
          "n", "o", "p", "q", "r", "s", "t", "u", "v", "w", "x", "y", "z"}
Upper == {"A", "B", "C", "D", "E", "F", "G", "H", "I", "J", "K", "L", "M",
          "N", "O", "P", "Q", "R", "S", "T", "U", "V", "W", "X", "Y", "Z"}
Digit == {"0", "1", "2", "3", "4", "5", "6", "7", "8", "9"}

\* The character classes of the two handle regular expressions.
IsWordChar(c) == c \in Lower \cup Upper \cup Digit \cup {"_"}
IsDomainChar(c) == c \in Lower \cup Upper \cup Digit \cup {".", "-"}
IsAlpha(c) == c \in Lower \cup Upper

\* String.prototype.includes for a one-character needle.
Includes(s, c) == \E k \in 1..Len(s) : s[k] = c

\* Index of the first occurrence of c in s, 0 when there is none.
IndexOf(s, c) ==
  IF Includes(s, c) THEN CHOOSE k \in 1..Len(s) : s[k] = c /\ \A j \in 1..(k-1) : s[j] # c
  ELSE 0

\* String.prototype.split with a one-character separator: the array of pieces.
RECURSIVE Split(_, _)
Split(s, c) ==
  IF ~Includes(s, c) THEN <<s>>
  ELSE LET k == IndexOf(s, c)
       IN <<SubSeq(s, 1, k - 1)>> \o Split(SubSeq(s, k + 1, Len(s)), c)

\* Array.prototype.join.
RECURSIVE Join(_, _)
Join(parts, sep) ==
  IF Len(parts) = 0 THEN <<>>
  ELSE IF Len(parts) = 1 THEN parts[1]
  ELSE parts[1] \o sep \o Join(Tail(parts), sep)

\* Whether needle occurs in hay as a contiguous substring.
IsSubstring(needle, hay) ==
  \E k \in 0..(Len(hay) - Len(needle)) : SubSeq(hay, k + 1, k + Len(needle)) = needle

\* encodeURIComponent: letters, digits and - _ . ! are kept, '@' is escaped.
RECURSIVE encodeURIComponent(_)
encodeURIComponent(s) ==
  IF Len(s) = 0 THEN <<>>
  ELSE (IF s[1] = "@" THEN <<"%", "4", "0">> ELSE <<s[1]>>) \o encodeURIComponent(Tail(s))

\* Number to decimal string, as a template literal renders an integer.
DigitChar(d) == <<"0", "1", "2", "3", "4", "5", "6", "7", "8", "9">>[d + 1]
RECURSIVE NatToString(_)
NatToString(n) ==
  IF n < 10 THEN <<DigitChar(n)>> ELSE NatToString(n \div 10) \o <<DigitChar(n % 10)>>
IntToString(n) == IF n < 0 THEN <<"-">> \o NatToString(-n) ELSE NatToString(n)

\* ---------------------------------------------------------- age arithmetic

\* 1000 * 60 * 60 * 24, the divisor of both age functions.
MsPerDay == 86400000
DaysPerYear == 365
DaysPerMonth == 30

\* A Date is an instant in epoch milliseconds, kept as [day, ms] with
\* instant = day * MsPerDay + ms and 0 <= ms < MsPerDay (epoch milliseconds do
\* not fit TLC's 32-bit integers).
\* Math.floor((now - created) / MsPerDay), computed exactly on that form:
\* floor((D * MsPerDay + r) / MsPerDay) = D + floor(r / MsPerDay).
DiffDays(now_, created_) ==
  (now_.day - created_.day) + ((now_.ms - created_.ms) \div MsPerDay)

\* The JavaScript remainder: the sign of the dividend.
JsRem(a, b) == IF a >= 0 THEN a % b ELSE -((-a) % b)

YearsLabel == <<" ", "y", "e", "a", "r", "s", ",", " ">>
MonthsLabel == <<" ", "m", "o", "n", "t", "h", "s">>

\* Mutant: the months are taken from all the days, not from those left over after
\* the whole years.
calculateAccountAgeNoYearRemainder(createdAt, now_) ==
  LET diffDays == DiffDays(now_, createdAt)
      years == diffDays \div DaysPerYear
      months == diffDays \div DaysPerMonth
  IN IF years > 0
     THEN IntToString(years) \o YearsLabel \o IntToString(months) \o MonthsLabel
     ELSE IntToString(months) \o MonthsLabel

calculateAccountAge(createdAt, now_) ==
  LET diffDays == DiffDays(now_, createdAt)
      years == diffDays \div DaysPerYear
      months == JsRem(diffDays, DaysPerYear) \div DaysPerMonth
  IN IF years > 0
     THEN IntToString(years) \o YearsLabel \o IntToString(months) \o MonthsLabel
     ELSE IntToString(months) \o MonthsLabel

calculateAgeDays(createdAt, now_) == DiffDays(now_, createdAt)

\* ------------------------------------------------------ handle validation

\* [a-zA-Z0-9.-]+\.[a-zA-Z]{2,}$ on the text after the '@'.
MatchDomain(d) ==
  \E j \in 1..Len(d) :
    /\ \A k \in 1..j : IsDomainChar(d[k])
    /\ j + 1 <= Len(d)
    /\ d[j + 1] = "."
    /\ Len(d) - (j + 1) >= 2
    /\ \A k \in (j + 2)..Len(d) : IsAlpha(d[k])

UsernameMin == 3
UsernameMax == 30

\* /^[a-zA-Z0-9_]{3,30}(@[a-zA-Z0-9.-]+\.[a-zA-Z]{2,})?$/ (multi-instance server)
handleRegexMulti(h) ==
  \E i \in UsernameMin..UsernameMax :
    /\ i <= Len(h)
    /\ \A k \in 1..i : IsWordChar(h[k])
    /\ \/ i = Len(h)
       \/ /\ i + 1 <= Len(h)
          /\ h[i + 1] = "@"
          /\ MatchDomain(SubSeq(h, i + 2, Len(h)))

\* /^[a-zA-Z0-9_]{3,30}@[a-zA-Z0-9.-]+\.[a-zA-Z]{2,}$/ (single-instance server)
handleRegexSingle(h) ==
  \E i \in UsernameMin..UsernameMax :
    /\ i + 1 <= Len(h)
    /\ \A k \in 1..i : IsWordChar(h[k])
    /\ h[i + 1] = "@"
    /\ MatchDomain(SubSeq(h, i + 2, Len(h)))

\* ---------------------------------------------------------- configuration

MastodonSocial == <<"m", "a", "s", "t", "o", "d", "o", "n", ".", "s", "o", "c", "i", "a", "l">>
FosstodonOrg == <<"f", "o", "s", "s", "t", "o", "d", "o", "n", ".", "o", "r", "g">>
MstdnSocial == <<"m", "s", "t", "d", "n", ".", "s", "o", "c", "i", "a", "l">>
XIo == <<"x", ".", "i", "o">>

\* The instance list when MASTODON_INSTANCES is not set.
DefaultInstances == <<MastodonSocial, FosstodonOrg, MstdnSocial>>

\* process.env.MASTODON_INSTANCES ? ....split(',') : the default list.
InstanceConfigs == {DefaultInstances, <<FosstodonOrg, XIo>>, <<XIo>>}

\* The two programs of the repository.
Servers == {"multi", "single"}

\* ------------------------------------------------------------------ inputs

Rep(n, c) == [k \in 1..n |-> c]

HEmpty == <<>>
HShort == <<"a", "b">>
HBare == <<"a", "b", "c">>
HBang == <<"a", "!", "c">>
HNoTld == <<"a", "b", "c", "@", "x">>
HShortTld == <<"a", "b", "c", "@", "x", ".", "i">>
HDigitTld == <<"a", "b", "c", "@", "x", ".", "i", "0">>
HFull == <<"a", "b", "c", "@", "x", ".", "i", "o">>
HFullConfigured == HBare \o <<"@">> \o MastodonSocial
HTwoAts == <<"a", "b", "c", "@", "@", "x", ".", "i", "o">>
HShortFull == <<"a", "b", "@", "x", ".", "i", "o">>
HNoHost == <<"a", "b", "c", "@", ".", "i", "o">>
HLong == Rep(UsernameMax + 1, "a")
HMaxFull == Rep(UsernameMax, "a") \o <<"@">> \o XIo

\* The :handle path parameters a client sends.
Handles == {HEmpty, HShort, HBare, HBang, HNoTld, HShortTld, HDigitTld, HFull,
            HFullConfigured, HTwoAts, HShortFull, HNoHost, HLong, HMaxFull}

\* What one outbound lookup ends with. kind "data": a 2xx answer, whose body has a
\* non-empty id or not and has the fields processProfileData dereferences (note,
\* followers_count, statuses_count) or not. kind "error": axios rejects, with the
\* upstream's status, or status 0 when there was no answer (network error, timeout).
NoResponse == 0
Outcome(kind, id, wf, status) == [kind |-> kind, id |-> id, wf |-> wf, status |-> status]
OkProfile == Outcome("data", TRUE, TRUE, 200)
MalformedProfile == Outcome("data", TRUE, FALSE, 200)
EmptyBody == Outcome("data", FALSE, FALSE, 200)
Http404 == Outcome("error", FALSE, FALSE, 404)
Http403 == Outcome("error", FALSE, FALSE, 403)
Http503 == Outcome("error", FALSE, FALSE, 503)
TransportError == Outcome("error", FALSE, FALSE, NoResponse)
Outcomes == {OkProfile, MalformedProfile, EmptyBody, Http404, Http403, Http503, TransportError}
\* The outcomes drawn for the calls of a fan-out, where the handler never reads the
\* status of an error: one upstream status and the missing answer stand for all.
FanOutOutcomes == {OkProfile, MalformedProfile, EmptyBody, Http404, TransportError}

\* ---------------------------------------------------------------- messages

\* A message is the template literal that builds it and the values interpolated
\* into it, in order.
Msg(template, args) == [template |-> template, args |-> args]
NoMsg == Msg("", <<>>)
CommaSpace == <<",", " ">>

\* Whether the text of message m contains the string s.
Mentions(m, s) == \E k \in 1..Len(m.args) : IsSubstring(s, m.args[k])

\* --------------------------------------------------------------- responses

\* One res.status(..).json(..) or res.json(..): the status, the shape of the
\* body, and the body's parts (error and details messages, the profiles).
Response(status, shape, error, details, profiles) ==
  [status |-> status, shape |-> shape, error |-> error, details |-> details,
   profiles |-> profiles]

HighConfidence == "High (exact server timestamp)"
MediumConfidence == "Medium (multiple instances found)"
NoInstance == <<>>

\* processProfileData: the fields of the formatted profile that depend on the
\* lookup (user_id, instance_used, estimation_confidence). It throws a TypeError
\* on a body without note / followers_count / statuses_count: see Throws.
processProfileData(profile, instanceUsed) ==
  [user_id |-> profile.id, estimation_confidence |-> HighConfidence,
   instance_used |-> instanceUsed]
Throws(profile) == ~profile.wf

\* ------------------------------------------------- multi-instance server

\* fetchFromInstance: the lookup result of a settled call; an error is caught
\* and returned, tagged like a success with the instance the call went to.
fetchFromInstance(outcome, instance) ==
  [settled |-> TRUE, isError |-> outcome.kind = "error", data |-> outcome,
   instanceUsed |-> instance]
Pending(instance) ==
  [settled |-> FALSE, isError |-> FALSE, data |-> EmptyBody, instanceUsed |-> instance]

\* Mutant: the full-handle branch is missing, every lookup fans out.
getMastodonProfileCallsAlwaysFanOut(handle_, instances_) ==
  [i \in 1..Len(instances_) |->
     [host |-> instances_[i], acct |-> encodeURIComponent(Split(handle_, "@")[1])]]

\* getMastodonProfile, up to its await: the outbound calls it issues, in order.
getMastodonProfileCalls(handle_, instances_) ==
  LET isFullHandle == Includes(handle_, "@")
      username == Split(handle_, "@")[1]
  IN IF isFullHandle
     THEN <<[host |-> Split(handle_, "@")[2], acct |-> encodeURIComponent(username)]>>
     ELSE [i \in 1..Len(instances_) |->
             [host |-> instances_[i], acct |-> encodeURIComponent(username)]]

\* Mutant: Promise.race in place of Promise.all, resuming on the first settled call.
PromiseRace(results_) == \E i \in 1..Len(results_) : results_[i].settled

\* await Promise.all(promises): resumes when every call has settled.
PromiseAll(results_) == \A i \in 1..Len(results_) : results_[i].settled

\* Mutant: the filter keeps every result with a body, without looking at its id.
RECURSIVE SuccessesAnyBody(_)
SuccessesAnyBody(results_) ==
  IF Len(results_) = 0 THEN <<>>
  ELSE (IF ~results_[1].isError THEN <<results_[1]>> ELSE <<>>)
       \o SuccessesAnyBody(Tail(results_))

\* results.filter(result => result.data && result.data.id), order kept.
RECURSIVE Successes(_)
Successes(results_) ==
  IF Len(results_) = 0 THEN <<>>
  ELSE (IF ~results_[1].isError /\ results_[1].data.id THEN <<results_[1]>> ELSE <<>>)
       \o Successes(Tail(results_))

\* The catch block of the handler: 500 with the thrown error's message.
CatchMulti(message, instances_) ==
  Response(500, "error_details", message,
           Msg("Searched instances: ${instances}", <<Join(instances_, CommaSpace)>>), <<>>)

TypeErrorMsg == Msg("Cannot read properties of undefined", <<>>)

\* The handler after `await getMastodonProfile(handle)` for a full handle: the
\* result is the one lookup result, not an array.
RespondFullHandle(handle_, result, instances_) ==
  IF result.isError
  THEN LET instance == IF Includes(handle_, "@") THEN Split(handle_, "@")[2]
                       ELSE instances_[1]
       IN Response(IF result.data.status # NoResponse THEN result.data.status ELSE 404,
                   "error",
                   Msg("Mastodon account ${handle} not found, suspended, or instance ${instance} unavailable",
                       <<handle_, instance>>),
                   NoMsg, <<>>)
  ELSE IF Throws(result.data) THEN CatchMulti(TypeErrorMsg, instances_)
  ELSE Response(200, "profile", NoMsg, NoMsg,
                <<processProfileData(result.data, result.instanceUsed)>>)

\* The handler after `await getMastodonProfile(handle)` for a bare username:
\* getMastodonProfile throws on no success, else the result is the successes.
RespondFanOut(handle_, results_, instances_) ==
  LET successes == Successes(results_)
      username == Split(handle_, "@")[1]
  IN IF Len(successes) = 0
     THEN CatchMulti(Msg("No account found for ${username} on instances: ${instances}",
                         <<username, Join(instances_, CommaSpace)>>), instances_)
     ELSE IF \E k \in 1..Len(successes) : Throws(successes[k].data)
     THEN CatchMulti(TypeErrorMsg, instances_)
     ELSE IF Len(successes) > 1
     THEN Response(200, "users", NoMsg, NoMsg,
                   [k \in 1..Len(successes) |->
                      [processProfileData(successes[k].data, successes[k].instanceUsed)
                         EXCEPT !.estimation_confidence = MediumConfidence]])
     ELSE Response(200, "profile", NoMsg, NoMsg,
                   <<processProfileData(successes[1].data, successes[1].instanceUsed)>>)

RespondMulti(handle_, results_, instances_) ==
  IF Includes(handle_, "@") THEN RespondFullHandle(handle_, results_[1], instances_)
  ELSE RespondFanOut(handle_, results_, instances_)

\* Mutant: the pattern test is missing, only a missing handle is refused.
ValidateMultiNoPattern(handle_, instances_) ==
  IF Len(handle_) = 0
  THEN <<Response(400, "error", Msg("Handle is required", <<>>), NoMsg, <<>>)>>
  ELSE <<>>

\* The two early returns of the handler: <<>> when the handle passes.
ValidateMulti(handle_, instances_) ==
  IF Len(handle_) = 0
  THEN <<Response(400, "error", Msg("Handle is required", <<>>), NoMsg, <<>>)>>
  ELSE IF ~handleRegexMulti(handle_)
  THEN <<Response(400, "error",
                  Msg("Invalid Mastodon handle format. Searched instances: ${instances}.",
                      <<Join(instances_, CommaSpace)>>), NoMsg, <<>>)>>
  ELSE <<>>

\* ------------------------------------------------ single-instance server

AtMastodonSocial == <<"@">> \o MastodonSocial

\* getMastodonProfile of the single-instance server, up to its await: a handle
\* without '@' gets @mastodon.social appended, then the one lookup is issued.
getMastodonProfileSingleCalls(handle_) ==
  LET h == IF ~Includes(handle_, "@") THEN handle_ \o AtMastodonSocial ELSE handle_
      username == Split(h, "@")[1]
      instance == Split(h, "@")[2]
  IN <<[host |-> instance, acct |-> encodeURIComponent(username)]>>

\* The settled axios.get of getMastodonProfile: response.data is returned, an
\* error is logged and thrown again.
getMastodonProfileSingle(outcome, instance) ==
  [settled |-> TRUE, isError |-> outcome.kind = "error", data |-> outcome,
   instanceUsed |-> instance]

NoDetails == Msg("No additional details", <<>>)

\* The handler of the single-instance server after `await getMastodonProfile`.
RespondSingle(handle_, result) ==
  IF result.isError
  THEN IF result.data.status = 404 \/ result.data.status = 403
       THEN Response(404, "error",
                     Msg("Mastodon account ${handle} not found, suspended, or instance unavailable",
                         <<handle_>>), NoMsg, <<>>)
       ELSE Response(IF result.data.status # NoResponse THEN result.data.status ELSE 500,
                     "error_details",
                     IF result.data.status # NoResponse
                     THEN Msg("Request failed with status code ${status}",
                              <<IntToString(result.data.status)>>)
                     ELSE Msg("timeout of 5000ms exceeded", <<>>),
                     IF result.data.status # NoResponse
                     THEN Msg("${error.response.data}", <<>>) ELSE NoDetails,
                     <<>>)
  ELSE IF ~result.data.id
  THEN Response(404, "error",
                Msg("Mastodon account ${handle} not found or suspended", <<handle_>>),
                NoMsg, <<>>)
  ELSE IF Throws(result.data)
  THEN Response(500, "error_details", TypeErrorMsg, NoDetails, <<>>)
  ELSE Response(200, "profile", NoMsg, NoMsg,
                <<processProfileData(result.data, NoInstance)>>)

\* The two early returns of the handler: <<>> when the handle passes.
ValidateSingle(handle_) ==
  IF Len(handle_) = 0
  THEN <<Response(400, "error", Msg("Handle is required", <<>>), NoMsg, <<>>)>>
  ELSE IF ~handleRegexSingle(handle_)
  THEN <<Response(400, "error", Msg("Invalid Mastodon handle format.", <<>>), NoMsg, <<>>)>>
  ELSE <<>>

\* ------------------------------------------------------------------- state

VARIABLES
  server,       \* which of the two programs is running
  instances,    \* the configured instance list of the multi server (the single one has none)
  pc,           \* per request: "idle" (not yet received), "awaiting", "done"
  handle,       \* per request: req.params.handle
  calls,        \* per request: the outbound lookups issued, in order
  results,      \* per request: the lookup result of each call, once settled
  responses,    \* per request: the HTTP responses sent, in order
  now,          \* new Date() of the age functions
  created_at,   \* profile.created_at
  account_age,  \* the last calculateAccountAge result
  age_days,     \* the last calculateAgeDays result
  computed      \* whether account_age / age_days are those of now and created_at

serverVars == <<server, instances, pc, handle, calls, results, responses>>
ageVars == <<now, created_at, account_age, age_days, computed>>
vars == <<server, instances, pc, handle, calls, results, responses,
          now, created_at, account_age, age_days, computed>>

Requests == 1..MaxRequests

Instant(day, ms) == [day |-> day, ms |-> ms]
Epoch == Instant(0, 0)

ServerInit ==
  /\ server \in Servers
  /\ instances \in (IF server = "multi" THEN InstanceConfigs ELSE {<<>>})
  /\ pc = [r \in Requests |-> "idle"]
  /\ handle = [r \in Requests |-> <<>>]
  /\ calls = [r \in Requests |-> <<>>]
  /\ results = [r \in Requests |-> <<>>]
  /\ responses = [r \in Requests |-> <<>>]

AgeIdle ==
  /\ now = Epoch
  /\ created_at = Epoch
  /\ account_age = <<>>
  /\ age_days = 0
  /\ computed = FALSE

Init == ServerInit /\ AgeIdle

\* ----------------------------------------------------------------- actions

Validate(handle_) ==
  IF server = "multi" THEN ValidateMulti(handle_, instances) ELSE ValidateSingle(handle_)

IssueCalls(handle_) ==
  IF server = "multi" THEN getMastodonProfileCalls(handle_, instances)
  ELSE getMastodonProfileSingleCalls(handle_)

\* Whether the lookup of this handle is a fan-out over the configured instances.
IsFanOut(handle_) == server = "multi" /\ ~Includes(handle_, "@")

\* A request arrives and its handler runs to its first await: it answers 400, or
\* issues every outbound call of the lookup and suspends.
Receive(r, h) ==
  /\ pc[r] = "idle"
  /\ handle' = [handle EXCEPT ![r] = h]
  /\ IF Validate(h) # <<>>
     THEN /\ responses' = [responses EXCEPT ![r] = Append(@, Validate(h)[1])]
          /\ pc' = [pc EXCEPT ![r] = "done"]
          /\ UNCHANGED <<calls, results>>
     ELSE /\ calls' = [calls EXCEPT ![r] = IssueCalls(h)]
          /\ results' = [results EXCEPT ![r] =
                           [i \in 1..Len(IssueCalls(h)) |-> Pending(IssueCalls(h)[i].host)]]
          /\ pc' = [pc EXCEPT ![r] = "awaiting"]
          /\ UNCHANGED responses
  /\ UNCHANGED <<server, instances>>
  /\ UNCHANGED ageVars

\* One outbound call settles: with a body, an error status, or no answer at all
\* (network error, or the 5 s timeout).
Settle(r, i, o) ==
  /\ pc[r] = "awaiting"
  /\ i \in 1..Len(results[r])
  /\ ~results[r][i].settled
  /\ IsFanOut(handle[r]) => o \in FanOutOutcomes
  /\ results' = [results EXCEPT ![r][i] =
                   IF server = "multi" THEN fetchFromInstance(o, calls[r][i].host)
                   ELSE getMastodonProfileSingle(o, calls[r][i].host)]
  /\ UNCHANGED <<server, instances, pc, handle, calls, responses>>
  /\ UNCHANGED ageVars

Respond(handle_, results_) ==
  IF server = "multi" THEN RespondMulti(handle_, results_, instances)
  ELSE RespondSingle(handle_, results_[1])

\* Mutant: the error branch of the handler sends its response without returning,
\* so that the formatter then throws on the missing body and the catch block
\* sends a second response.
ResumeMissingReturn(r) ==
  /\ pc[r] = "awaiting"
  /\ PromiseAll(results[r])
  /\ responses' = [responses EXCEPT ![r] =
                     IF Len(results[r]) = 1 /\ results[r][1].isError
                     THEN Append(Append(@, Respond(handle[r], results[r])),
                                 CatchMulti(TypeErrorMsg, instances))
                     ELSE Append(@, Respond(handle[r], results[r]))]
  /\ pc' = [pc EXCEPT ![r] = "done"]
  /\ UNCHANGED <<server, instances, handle, calls, results>>
  /\ UNCHANGED ageVars

\* The handler resumes after its await and sends its response.
Resume(r) ==
  /\ pc[r] = "awaiting"
  /\ PromiseAll(results[r])
  /\ responses' = [responses EXCEPT ![r] = Append(@, Respond(handle[r], results[r]))]
  /\ pc' = [pc EXCEPT ![r] = "done"]
  /\ UNCHANGED <<server, instances, handle, calls, results>>
  /\ UNCHANGED ageVars

Next ==
  \/ \E r \in Requests, h \in Handles : Receive(r, h)
  \/ \E r \in Requests, i \in 1..Len(DefaultInstances), o \in Outcomes : Settle(r, i, o)
  \/ \E r \in Requests : Resume(r)

Spec == Init /\ [][Next]_vars

\* While a call is outstanding or a continuation is ready, one of them takes a
\* step: every outbound call settles (axios resolves, rejects, or times out after
\* 5 s) and the event loop runs the continuations that are ready.
Progress ==
  \/ \E r \in Requests, i \in 1..Len(DefaultInstances), o \in Outcomes : Settle(r, i, o)
  \/ \E r \in Requests : Resume(r)

Fairness == WF_vars(Progress)

FairSpec == Init /\ [][Next]_vars /\ Fairness

\* ------------------------------------------------ the age functions alone

HalfDayMs == MsPerDay \div 2
MsOfDay == {0, HalfDayMs, MsPerDay - 1}
CreatedDays == {0, 2}

AgeInit ==
  /\ server = "multi"
  /\ instances = DefaultInstances
  /\ pc = [r \in Requests |-> "idle"]
  /\ handle = [r \in Requests |-> <<>>]
  /\ calls = [r \in Requests |-> <<>>]
  /\ results = [r \in Requests |-> <<>>]
  /\ responses = [r \in Requests |-> <<>>]
  /\ now \in {Instant(0, ms) : ms \in MsOfDay}
  /\ created_at \in {Instant(d, ms) : d \in CreatedDays, ms \in MsOfDay}
  /\ account_age = <<>>
  /\ age_days = 0
  /\ computed = FALSE

\* processProfileData's two calls: account_age and age_days of one profile.
AgeCompute ==
  /\ ~computed
  /\ account_age' = calculateAccountAge(created_at, now)
  /\ age_days' = calculateAgeDays(created_at, now)
  /\ computed' = TRUE
  /\ UNCHANGED <<now, created_at>>
  /\ UNCHANGED serverVars

\* The clock advances to the next day; the formatted profile of the last request
\* is gone with that request.
AgeTick ==
  /\ now.day < MaxDay
  /\ now' = [now EXCEPT !.day = @ + 1]
  /\ computed' = FALSE
  /\ account_age' = <<>>
  /\ age_days' = 0
  /\ UNCHANGED created_at
  /\ UNCHANGED serverVars

AgeNext == AgeCompute \/ AgeTick

AgeSpec == AgeInit /\ [][AgeNext]_vars

\* ------------------------------------------------------------------ claims

\* The validation pattern of the running server.
MatchesPattern(h) ==
  IF server = "multi" THEN handleRegexMulti(h) ELSE handleRegexSingle(h)

\* The text of a handle after its first '@'.
InstanceOf(h) == SubSeq(h, IndexOf(h, "@") + 1, Len(h))

\* A bare username: 3 to 30 word characters and no '@'.
IsBareUsername(h) ==
  /\ Len(h) >= 3
  /\ Len(h) <= 30
  /\ \A k \in 1..Len(h) : IsWordChar(h[k])

\* The lookup results of request r that carry a profile with a non-empty id.
SuccessIndexes(r) ==
  {i \in 1..Len(results[r]) :
     results[r][i].settled /\ results[r][i].data.kind = "data" /\ results[r][i].data.id}

\* A username-only lookup of the multi-instance server that has been answered.
FanOutDone(r) ==
  /\ server = "multi"
  /\ pc[r] = "done"
  /\ IsBareUsername(handle[r])

\* C1: in both servers, a request whose handle is missing or fails the server's
\* validation pattern is answered 400 and issues no outbound call; a request that
\* has issued an outbound call has a handle that passed validation.
C1_ValidationBeforeIO ==
  \A r \in Requests :
    pc[r] # "idle" =>
      /\ ~MatchesPattern(handle[r]) =>
           /\ calls[r] = <<>>
           /\ pc[r] = "done"
           /\ Len(responses[r]) = 1
           /\ responses[r][1].status = 400
      /\ calls[r] # <<>> => MatchesPattern(handle[r])

C1_Witness ==
  /\ pc[1] = "done"
  /\ handle[1] = HNoTld
  /\ responses[1][1].status = 400
  /\ pc[2] = "awaiting"
  /\ handle[2] = HFull
  /\ Len(calls[2]) = 1

\* C2: a username-only lookup in which no configured instance returns a profile
\* with a non-empty id is answered 404, with an error message that lists every
\* configured instance hostname.
C2_ZeroSuccessIs404 ==
  \A r \in Requests :
    (FanOutDone(r) /\ SuccessIndexes(r) = {}) =>
      /\ Len(responses[r]) = 1
      /\ responses[r][1].status = 404
      /\ \A i \in 1..Len(instances) : Mentions(responses[r][1].error, instances[i])

\* C3: a full-handle lookup whose one upstream call fails with 404 is answered 404
\* with a message that names that instance and no other configured instance, and
\* the request makes exactly one outbound call, to that instance.
C3_FullHandle404 ==
  \A r \in Requests :
    (pc[r] # "idle" /\ MatchesPattern(handle[r]) /\ Includes(handle[r], "@")) =>
      /\ Len(calls[r]) = 1
      /\ calls[r][1].host = InstanceOf(handle[r])
      /\ (pc[r] = "done" /\ results[r][1].isError /\ results[r][1].data.status = 404) =>
           /\ Len(responses[r]) = 1
           /\ responses[r][1].status = 404
           /\ Mentions(responses[r][1].error, InstanceOf(handle[r]))
           /\ \A i \in 1..Len(instances) :
                ~IsSubstring(instances[i], InstanceOf(handle[r])) =>
                  ~Mentions(responses[r][1].error, instances[i])

C3_Witness ==
  /\ server = "multi"
  /\ instances = DefaultInstances
  /\ pc[1] = "done"
  /\ handle[1] = HFullConfigured
  /\ results[1][1].data = Http404
  /\ responses[1][1].status = 404

\* C4: in both servers, a lookup whose upstream call is answered 403 is answered
\* 404 to the client.
C4_Upstream403Is404 ==
  \A r \in Requests :
    (pc[r] = "done" /\ Len(results[r]) = 1 /\ results[r][1].isError
       /\ results[r][1].data.status = 403) =>
      /\ Len(responses[r]) = 1
      /\ responses[r][1].status = 404

\* C5: on the full-handle path of both servers, an upstream call that fails
\* without any HTTP answer is answered 500 with an {error, details} body, and an
\* upstream status other than 2xx, 404 and 403 is the status of the response.
C5_TransportErrorIs500 ==
  \A r \in Requests :
    (pc[r] = "done" /\ MatchesPattern(handle[r]) /\ Includes(handle[r], "@")
       /\ results[r][1].isError) =>
      /\ results[r][1].data.status = NoResponse =>
           /\ responses[r][1].status = 500
           /\ responses[r][1].shape = "error_details"
      /\ results[r][1].data.status \notin {NoResponse, 404, 403} =>
           responses[r][1].status = results[r][1].data.status

\* The answer C6 describes for the k profiles found: {users, note} with one
\* Medium-confidence entry per succeeding instance when k >= 2, the one
\* High-confidence profile when k = 1.
AnswersWithProfiles(r) ==
  LET k == Cardinality(SuccessIndexes(r))
      resp == responses[r][1]
  IN /\ Len(responses[r]) = 1
     /\ resp.status = 200
     /\ Len(resp.profiles) = k
     /\ \A i \in SuccessIndexes(r) :
          Cardinality({j \in 1..k : resp.profiles[j].instance_used = instances[i]}) = 1
     /\ k >= 2 =>
          /\ resp.shape = "users"
          /\ \A j \in 1..k : resp.profiles[j].estimation_confidence = MediumConfidence
     /\ k = 1 =>
          /\ resp.shape = "profile"
          /\ resp.profiles[1].estimation_confidence = HighConfidence

\* C6 as claimed: a username-only lookup with k >= 1 instances returning a profile
\* with a non-empty id is answered 200: {users, note} with exactly k entries, each
\* tagged with its own instance and Medium confidence, when k >= 2, and a single
\* profile object with High confidence when k = 1.
C6_AsClaimed ==
  \A r \in Requests :
    (FanOutDone(r) /\ SuccessIndexes(r) # {}) => AnswersWithProfiles(r)

\* C6 as amended: the same, provided every profile with a non-empty id also has
\* the fields the formatter dereferences (note, followers_count, statuses_count);
\* when one of them lacks such a field the request is answered 500.
C6_WellFormedProfiles ==
  \A r \in Requests :
    (FanOutDone(r) /\ SuccessIndexes(r) # {}) =>
      IF \A i \in SuccessIndexes(r) : results[r][i].data.wf
      THEN AnswersWithProfiles(r)
      ELSE /\ Len(responses[r]) = 1
           /\ responses[r][1].status = 500

C6_Witness ==
  /\ server = "multi"
  /\ instances = DefaultInstances
  /\ pc[1] = "done"
  /\ handle[1] = HBare
  /\ results[1][1].data = OkProfile
  /\ results[1][2].data = Http404
  /\ results[1][3].data = OkProfile
  /\ responses[1][1].shape = "users"
  /\ Len(responses[1][1].profiles) = 2

\* C7: a username-only lookup over the N configured instances issues exactly N
\* calls, one per configured instance, all before it waits for any result; it is
\* answered only after all N calls have settled, from N results each tagged with
\* the instance its call went to; and whatever the other calls end with, every
\* instance that returned a profile is counted into the answer.
C7_FanOutJoinsAll ==
  \A r \in Requests :
    (server = "multi" /\ pc[r] # "idle" /\ IsBareUsername(handle[r])) =>
      /\ Len(calls[r]) = Len(instances)
      /\ Len(results[r]) = Len(instances)
      /\ \A i \in 1..Len(instances) :
           /\ calls[r][i].host = instances[i]
           /\ calls[r][i].acct = handle[r]
           /\ results[r][i].instanceUsed = instances[i]
      /\ pc[r] = "done" =>
           /\ \A i \in 1..Len(instances) : results[r][i].settled
           /\ (\A i \in SuccessIndexes(r) : results[r][i].data.wf) =>
                \A i \in SuccessIndexes(r) :
                  \E j \in 1..Len(responses[r][1].profiles) :
                    responses[r][1].profiles[j].instance_used = instances[i]

C7_Witness ==
  /\ server = "multi"
  /\ instances = DefaultInstances
  /\ pc[1] = "done"
  /\ handle[1] = HBare
  /\ results[1][1].data = TransportError
  /\ results[1][2].data = OkProfile
  /\ results[1][3].data = Http404
  /\ responses[1][1].status = 200
  /\ pc[2] = "awaiting"
  /\ handle[2] = HBare
  /\ results[2][3].settled
  /\ ~results[2][1].settled

\* The whole-day difference between now and created_at: the days between the two
\* dates, less one when the time of day of now is before that of created_at.
WholeDays == (now.day - created_at.day) - (IF now.ms < created_at.ms THEN 1 ELSE 0)

OneYearOneMonth ==
  <<"1", " ", "y", "e", "a", "r", "s", ",", " ", "1", " ", "m", "o", "n", "t", "h", "s">>
TwelveMonths == <<"1", "2", " ", "m", "o", "n", "t", "h", "s">>

\* C8: for every non-negative whole-day difference d between now and created_at,
\* calculateAccountAge renders floor(d / 365) years and floor((d mod 365) / 30)
\* months, as "<years> years, <months> months" when years > 0 and as
\* "<months> months" otherwise (400 days: "1 years, 1 months"), and
\* calculateAgeDays returns d.
C8_AgeArithmetic ==
  (computed /\ WholeDays >= 0) =>
    LET d == WholeDays
        years == d \div 365
        months == (d % 365) \div 30
    IN /\ age_days = d
       /\ years > 0 =>
            account_age = IntToString(years) \o <<" ", "y", "e", "a", "r", "s", ",", " ">>
                            \o IntToString(months) \o <<" ", "m", "o", "n", "t", "h", "s">>
       /\ years = 0 =>
            account_age = IntToString(months) \o <<" ", "m", "o", "n", "t", "h", "s">>
       /\ d = 400 => account_age = OneYearOneMonth
       /\ d = 364 => account_age = TwelveMonths

C8_Witness ==
  /\ computed
  /\ WholeDays = 400
  /\ now.ms < created_at.ms
  /\ account_age = OneYearOneMonth
  /\ age_days = 400

\* C9: in the single-instance server, a request whose handle is a bare username
\* (3 to 30 word characters, no '@') is resolved against mastodon.social: exactly
\* one outbound lookup is issued, to mastodon.social, for that username.
C9_BareUsernameDefaults ==
  \A r \in Requests :
    (server = "single" /\ pc[r] # "idle" /\ IsBareUsername(handle[r])) =>
      /\ Len(calls[r]) = 1
      /\ calls[r][1].host = MastodonSocial
      /\ calls[r][1].acct = handle[r]

\* What a step does to request r.
Untouched(r) ==
  /\ pc'[r] = pc[r]
  /\ handle'[r] = handle[r]
  /\ calls'[r] = calls[r]
  /\ results'[r] = results[r]
  /\ responses'[r] = responses[r]

\* C10: in the multi-instance server every request that has arrived eventually
\* has exactly one response, and never has two, whatever its handle and whatever
\* its outbound calls end with, provided each of them settles; a step of one
\* request leaves every other request as it was, and no step changes the
\* configured instance list.
C10_ExactlyOneResponse ==
  /\ [][\A r \in Requests :
          /\ Len(responses'[r]) <= 1
          /\ pc'[r] = "done" <=> Len(responses'[r]) = 1]_vars
  /\ [][\A r \in Requests : ~Untouched(r) => \A q \in Requests \ {r} : Untouched(q)]_vars
  /\ [][instances' = instances]_vars
  /\ \A r \in Requests :
       (server = "multi" /\ pc[r] # "idle") ~> (pc[r] = "done" /\ Len(responses[r]) = 1)

C10_Witness ==
  /\ server = "multi"
  /\ instances = DefaultInstances
  /\ pc[1] = "done"
  /\ handle[1] = HBare
  /\ Len(responses[1]) = 1
  /\ responses[1][1].status = 500
  /\ pc[2] = "done"
  /\ handle[2] = HTwoAts
  /\ Len(responses[2]) = 1
  /\ responses[2][1].status = 400

====
